---- MODULE Spec2Model ----
(***************************************************************************)
(* Model of the igdb client: URL construction (singleURL, multiURL,        *)
(* searchURL, encodeURL), the transport (Client.get) and the entity        *)
(* accessors (GetGame, GetGames, SearchGames, GetFeed, GetFeeds,           *)
(* GetEndpointModel).  A Go string is a sequence of one-character strings. *)
(***************************************************************************)
EXTENDS Integers, Sequences, FiniteSets, TLC

VARIABLES pc, call, requests, ret

vars == <<pc, call, requests, ret>>

(* ---------------------------- bounds --------------------------------- *)
MaxIds == 2
MaxOpts == 2

(* ------------------------ program constants -------------------------- *)
igdbURL == <<"h","t","t","p","s",":","/","/","a","p","i","-","2","4","4","5","5","8","2","0","1","1","2","6","8",".","a","p","i","c","a","s","t",".","i","o","/">>
CharacterEndpoint == <<"c","h","a","r","a","c","t","e","r","s","/">>
CollectionEndpoint == <<"c","o","l","l","e","c","t","i","o","n","s","/">>
CompanyEndpoint == <<"c","o","m","p","a","n","i","e","s","/">>
CreditEndpoint == <<"c","r","e","d","i","t","s","/">>
EngineEndpoint == <<"g","a","m","e","_","e","n","g","i","n","e","s","/">>
FeedEndpoint == <<"f","e","e","d","s","/">>
FranchiseEndpoint == <<"f","r","a","n","c","h","i","s","e","s","/">>
GameEndpoint == <<"g","a","m","e","s","/">>
GameModeEndpoint == <<"g","a","m","e","_","m","o","d","e","s","/">>
GenreEndpoint == <<"g","e","n","r","e","s","/">>
KeywordEndpoint == <<"k","e","y","w","o","r","d","s","/">>
PageEndpoint == <<"p","a","g","e","s","/">>
PersonEndpoint == <<"p","e","o","p","l","e","/">>
PlatformEndpoint == <<"p","l","a","t","f","o","r","m","s","/">>
PerspectiveEndpoint == <<"p","l","a","y","e","r","_","p","e","r","s","p","e","c","t","i","v","e","s","/">>
PulseEndpoint == <<"p","u","l","s","e","s","/">>
PulseGroupEndpoint == <<"p","u","l","s","e","_","g","r","o","u","p","s","/">>
PulseSourceEndpoint == <<"p","u","l","s","e","_","s","o","u","r","c","e","s">>
ReleaseDateEndpoint == <<"r","e","l","e","a","s","e","_","d","a","t","e","s","/">>
ReviewEndpoint == <<"r","e","v","i","e","w","s","/">>
ThemeEndpoint == <<"t","h","e","m","e","s","/">>
TitleEndpoint == <<"t","i","t","l","e","s","/">>
Endpoints ==
  {CharacterEndpoint, CollectionEndpoint, CompanyEndpoint, CreditEndpoint,
   EngineEndpoint, FeedEndpoint, FranchiseEndpoint, GameEndpoint,
   GameModeEndpoint, GenreEndpoint, KeywordEndpoint, PageEndpoint,
   PersonEndpoint, PlatformEndpoint, PerspectiveEndpoint, PulseEndpoint,
   PulseGroupEndpoint, PulseSourceEndpoint, ReleaseDateEndpoint, ReviewEndpoint,
   ThemeEndpoint, TitleEndpoint}

(* error values: nil, the package sentinels, and the error types that come *)
(* back from net/http and encoding/json                                    *)
nil == "nil"
ErrNegativeID == "ErrNegativeID"
ErrEmptyIDs == "ErrEmptyIDs"
ErrOutOfRange == "ErrOutOfRange"
ErrNoResults == "ErrNoResults"
errInvalidJSON == "errInvalidJSON"
jsonSyntaxError == "json.SyntaxError"
jsonUnmarshalTypeError == "json.UnmarshalTypeError"
httpDoError == "http.Do error"
readAllError == "ioutil.ReadAll error"
serverError == "igdb server error"

(* ------------------------- string helpers ---------------------------- *)
Digits == <<"0","1","2","3","4","5","6","7","8","9">>

RECURSIVE Itoa(_)
Itoa(n) ==
  IF n < 0 THEN <<"-">> \o Itoa(0 - n)
  ELSE IF n < 10 THEN <<Digits[n + 1]>>
  ELSE Itoa(n \div 10) \o <<Digits[(n % 10) + 1]>>

RECURSIVE Join(_, _)
Join(strs, sep) ==
  IF strs = <<>> THEN <<>>
  ELSE IF Len(strs) = 1 THEN strs[1]
  ELSE strs[1] \o sep \o Join(Tail(strs), sep)

RECURSIVE ReplaceAll(_, _)
ReplaceAll(s, old) ==
  IF s = <<>> THEN <<>>
  ELSE IF Head(s) = old THEN ReplaceAll(Tail(s), old)
  ELSE <<Head(s)>> \o ReplaceAll(Tail(s), old)

intsToStrings(ints) ==
  [i \in 1..Len(ints) |-> Itoa(ints[i])]

intsToCommaString_Trailing(ints) ==
  Join(intsToStrings(ints), <<",">>) \o <<",">>

intsToCommaString(ints) ==
  Join(intsToStrings(ints), <<",">>)

(* ---------------------------- options -------------------------------- *)
OptLimit(n) == [kind |-> "limit", n |-> n, s |-> <<>>]
OptOffset(n) == [kind |-> "offset", n |-> n, s |-> <<>>]
OptFields(s) == [kind |-> "fields", n |-> 0, s |-> s]
optSearch(qry) == [kind |-> "search", n |-> 0, s |-> qry]

KeyOrder == <<"fields", "limit", "offset", "search">>

KeyChars(k) ==
  CASE k = "fields" -> <<"f","i","e","l","d","s">>
    [] k = "limit" -> <<"l","i","m","i","t">>
    [] k = "offset" -> <<"o","f","f","s","e","t">>
    [] k = "search" -> <<"s","e","a","r","c","h">>

EmptyValues == [k \in {} |-> <<>>]

ValuesSet(v, k, s) ==
  [x \in (DOMAIN v) \cup {k} |-> IF x = k THEN s ELSE v[x]]

optErr(o) ==
  CASE o.kind = "limit" -> IF o.n <= 0 \/ o.n > 50 THEN ErrOutOfRange ELSE nil
    [] o.kind = "offset" -> IF o.n < 0 THEN ErrOutOfRange ELSE nil
    [] OTHER -> nil

optApply(v, o) ==
  CASE o.kind = "limit" -> ValuesSet(v, "limit", Itoa(o.n))
    [] o.kind = "offset" -> ValuesSet(v, "offset", Itoa(o.n))
    [] o.kind = "fields" -> ValuesSet(v, "fields", o.s)
    [] o.kind = "search" -> ValuesSet(v, "search", o.s)

RECURSIVE applyOpts(_, _)
applyOpts(v, opts) ==
  IF opts = <<>> THEN [Values |-> v, err |-> nil]
  ELSE IF optErr(Head(opts)) # nil
       THEN [Values |-> EmptyValues, err |-> optErr(Head(opts))]
       ELSE applyOpts(optApply(v, Head(opts)), Tail(opts))

newOpt(opts) == applyOpts(EmptyValues, opts)

Unreserved ==
  {"a","b","c","d","e","f","g","h","i","j","k","l","m","n","o","p","q","r",
   "s","t","u","v","w","x","y","z","0","1","2","3","4","5","6","7","8","9",
   "-","_",".","~"}

escapeChar(c) ==
  IF c \in Unreserved THEN <<c>>
  ELSE CASE c = " " -> <<"+">>
         [] c = "," -> <<"%","2","C">>
         [] c = "*" -> <<"%","2","A">>
         [] c = "/" -> <<"%","2","F">>
         [] c = "?" -> <<"%","3","F">>
         [] c = "&" -> <<"%","2","6">>
         [] c = "=" -> <<"%","3","D">>
         [] c = "+" -> <<"%","2","B">>

RECURSIVE QueryEscape(_)
QueryEscape(s) ==
  IF s = <<>> THEN <<>> ELSE escapeChar(Head(s)) \o QueryEscape(Tail(s))

RECURSIVE encodeKeys(_, _)
encodeKeys(v, keys) ==
  IF keys = <<>> THEN <<>>
  ELSE IF Head(keys) \in DOMAIN v
       THEN <<QueryEscape(KeyChars(Head(keys))) \o <<"=">>
                \o QueryEscape(v[Head(keys)])>> \o encodeKeys(v, Tail(keys))
       ELSE encodeKeys(v, Tail(keys))

Encode(v) == Join(encodeKeys(v, KeyOrder), <<"&">>)

(* --------------------------- URL builders ---------------------------- *)
encodeURL_NoStrip(enc, url) ==
  IF Encode(enc) # <<>> THEN url \o <<"?">> \o Encode(enc) ELSE url

encodeURL(enc, url) ==
  LET stripped == ReplaceAll(url, " ")
      values == Encode(enc)
  IN  IF values # <<>> THEN stripped \o <<"?">> \o values ELSE stripped

singleURL_NoIDCheck(rootURL, end, id, opts) ==
  LET opt == newOpt(opts)
  IN  IF opt.err # nil THEN [url |-> <<>>, err |-> opt.err]
      ELSE [url |-> encodeURL(opt.Values, rootURL \o end \o Itoa(id)),
            err |-> nil]

singleURL_OptErrDropped(rootURL, end, id, opts) ==
  IF id < 0 THEN [url |-> <<>>, err |-> ErrNegativeID]
  ELSE [url |-> encodeURL(newOpt(opts).Values, rootURL \o end \o Itoa(id)),
        err |-> nil]

singleURL(rootURL, end, id, opts) ==
  IF id < 0 THEN [url |-> <<>>, err |-> ErrNegativeID]
  ELSE LET opt == newOpt(opts)
       IN  IF opt.err # nil THEN [url |-> <<>>, err |-> opt.err]
           ELSE [url |-> encodeURL(opt.Values, rootURL \o end \o Itoa(id)),
                 err |-> nil]

multiURL(rootURL, end, ids, opts) ==
  IF \E i \in 1..Len(ids) : ids[i] < 0
  THEN [url |-> <<>>, err |-> ErrNegativeID]
  ELSE LET opt == newOpt(opts)
       IN  IF opt.err # nil THEN [url |-> <<>>, err |-> opt.err]
           ELSE [url |-> encodeURL(opt.Values,
                                   rootURL \o end \o intsToCommaString(ids)),
                 err |-> nil]

searchURL(rootURL, end, qry, opts) ==
  LET opt == newOpt(Append(opts, optSearch(qry)))
  IN  IF opt.err # nil THEN [url |-> <<>>, err |-> opt.err]
      ELSE [url |-> encodeURL(opt.Values, rootURL \o end), err |-> nil]

(* ----------------------------- transport ----------------------------- *)
NewClient == [rootURL |-> igdbURL]

NoBody == [syntax |-> "none", elemKind |-> "none", elems |-> <<>>]

Bodies ==
  {[syntax |-> "empty", elemKind |-> "none", elems |-> <<>>],
   [syntax |-> "invalid", elemKind |-> "none", elems |-> <<>>],
   [syntax |-> "object", elemKind |-> "none", elems |-> <<>>],
   [syntax |-> "array", elemKind |-> "none", elems |-> <<>>],
   [syntax |-> "array", elemKind |-> "object", elems |-> <<1>>],
   [syntax |-> "array", elemKind |-> "object", elems |-> <<2, 1>>],
   [syntax |-> "array", elemKind |-> "string", elems |-> <<1, 2>>]}

NoResp == [outcome |-> "none", body |-> NoBody]

Responses ==
  {[outcome |-> o, body |-> NoBody] : o \in {"doErr", "status", "readErr"}}
    \cup {[outcome |-> "ok", body |-> b] : b \in Bodies}

(* json.Unmarshal of the body into a nil slice whose elements are of       *)
(* kind dest ("object" for entities, "string" for field names)             *)
Unmarshal(body, dest) ==
  CASE body.syntax \in {"empty", "invalid"} ->
         [err |-> jsonSyntaxError, val |-> <<>>, isNil |-> TRUE]
    [] body.syntax = "object" ->
         [err |-> jsonUnmarshalTypeError, val |-> <<>>, isNil |-> TRUE]
    [] body.syntax = "array" ->
         IF body.elems # <<>> /\ body.elemKind # dest
         THEN [err |-> jsonUnmarshalTypeError, val |-> <<>>, isNil |-> FALSE]
         ELSE [err |-> nil, val |-> body.elems, isNil |-> FALSE]

checkError(resp) ==
  IF resp.outcome = "status" THEN serverError ELSE nil

get(url, resp, dest) ==
  IF resp.outcome = "doErr"
  THEN [err |-> httpDoError, val |-> <<>>, isNil |-> TRUE]
  ELSE IF checkError(resp) # nil
  THEN [err |-> checkError(resp), val |-> <<>>, isNil |-> TRUE]
  ELSE IF resp.outcome = "readErr"
  THEN [err |-> readAllError, val |-> <<>>, isNil |-> TRUE]
  ELSE Unmarshal(resp.body, dest)

(* ----------------------------- accessors ----------------------------- *)
(* What an accessor hands back: the URL it built, the error, the value    *)
(* (val, with isNil for a nil pointer or nil slice) and whether it        *)
(* panicked (index out of range).                                         *)
NoRet == [url |-> <<>>, err |-> nil, val |-> <<>>, isNil |-> TRUE,
          panic |-> FALSE]

failed(err) == [url |-> <<>>, err |-> err, val |-> <<>>, isNil |-> TRUE,
                panic |-> FALSE]

(* GetGame / GetFeed after the URL is built: get into a slice, return &g[0] *)
getFirst(url, resp) ==
  LET r == get(url, resp, "object")
  IN  IF r.err # nil THEN [failed(r.err) EXCEPT !.url = url]
      ELSE IF Len(r.val) = 0
           THEN [url |-> url, err |-> nil, val |-> <<>>, isNil |-> TRUE,
                 panic |-> TRUE]
           ELSE [url |-> url, err |-> nil, val |-> <<r.val[1]>>,
                 isNil |-> FALSE, panic |-> FALSE]

(* GetGames / GetFeeds / SearchGames / GetEndpointModel after the URL is   *)
(* built: get into a slice, return the slice                               *)
getAll(url, resp, dest) ==
  LET r == get(url, resp, dest)
  IN  IF r.err # nil THEN [failed(r.err) EXCEPT !.url = url]
      ELSE [url |-> url, err |-> nil, val |-> r.val, isNil |-> r.isNil,
            panic |-> FALSE]

(* ------------------------------ inputs ------------------------------- *)
IdSamples == {-1, 0, 7, 12}

BoundedSeq(S, n) == UNION {[1..k -> S] : k \in 0..n}

IdLists == BoundedSeq(IdSamples, MaxIds)

OptSamples ==
  {OptLimit(0), OptLimit(50), OptLimit(51), OptOffset(-1), OptOffset(0),
   OptFields(<<"n","a","m","e">>)}

OptLists == BoundedSeq(OptSamples, MaxOpts)

QrySamples == {<<>>, <<"a">>, <<"a"," ","b">>}

URLSamples ==
  {<<>>, <<"a">>, <<" ">>, <<"a"," ","b">>, <<" ","a","/"," "," ","7">>,
   igdbURL \o GameEndpoint \o <<"1"," ","2">>}

EncSamples ==
  {newOpt(o).Values : o \in {<<>>, <<OptLimit(50)>>,
     <<OptFields(<<"n","a","m","e">>), OptOffset(0)>>,
     <<optSearch(<<"a"," ","b">>)>>}}

NoCall == [op |-> "none", end |-> <<>>, id |-> 0, ids |-> <<>>,
           qry |-> <<>>, opts |-> <<>>, url |-> <<>>, enc |-> EmptyValues,
           resp |-> NoResp]

(* ------------------------------ actions ------------------------------ *)
Init ==
  /\ pc = "idle"
  /\ call = NoCall
  /\ requests = <<>>
  /\ ret = NoRet

(* an accessor whose URL builder yielded u: on error return (nil, err)    *)
(* without a request, otherwise send the request and return the first     *)
(* element (want = "first") or the whole list of "object"s or "string"s   *)
Finish(c, u, want) ==
  IF u.err # nil
  THEN /\ call' = c
       /\ requests' = <<>>
       /\ ret' = failed(u.err)
  ELSE \E resp \in Responses :
         /\ call' = [c EXCEPT !.resp = resp]
         /\ requests' = <<u.url>>
         /\ ret' = IF want = "first" THEN getFirst(u.url, resp)
                   ELSE getAll(u.url, resp, want)

GetGame ==
  /\ pc = "idle"
  /\ pc' = "done"
  /\ \E id \in IdSamples, opts \in OptLists :
       Finish([NoCall EXCEPT !.op = "GetGame", !.end = GameEndpoint,
                             !.id = id, !.opts = opts],
              singleURL(NewClient.rootURL, GameEndpoint, id, opts), "first")

GetFeed ==
  /\ pc = "idle"
  /\ pc' = "done"
  /\ \E id \in IdSamples, opts \in OptLists :
       Finish([NoCall EXCEPT !.op = "GetFeed", !.end = FeedEndpoint,
                             !.id = id, !.opts = opts],
              singleURL(NewClient.rootURL, FeedEndpoint, id, opts), "first")

GetGames ==
  /\ pc = "idle"
  /\ pc' = "done"
  /\ \E ids \in IdLists, opts \in OptLists :
       Finish([NoCall EXCEPT !.op = "GetGames", !.end = GameEndpoint,
                             !.ids = ids, !.opts = opts],
              multiURL(NewClient.rootURL, GameEndpoint, ids, opts),
              "object")

GetFeeds ==
  /\ pc = "idle"
  /\ pc' = "done"
  /\ \E ids \in IdLists, opts \in OptLists :
       Finish([NoCall EXCEPT !.op = "GetFeeds", !.end = FeedEndpoint,
                             !.ids = ids, !.opts = opts],
              multiURL(NewClient.rootURL, FeedEndpoint, ids, opts),
              "object")

SearchGames ==
  /\ pc = "idle"
  /\ pc' = "done"
  /\ \E qry \in QrySamples, opts \in OptLists :
       Finish([NoCall EXCEPT !.op = "SearchGames", !.end = GameEndpoint,
                             !.qry = qry, !.opts = opts],
              searchURL(NewClient.rootURL, GameEndpoint, qry, opts),
              "object")

GetEndpointModel ==
  /\ pc = "idle"
  /\ pc' = "done"
  /\ \E end \in Endpoints :
       Finish([NoCall EXCEPT !.op = "GetEndpointModel", !.end = end],
              [url |-> NewClient.rootURL \o end \o <<"m","e","t","a">>,
               err |-> nil],
              "string")

(* the URL builders called on their own, with any endpoint *)
Built(c, u) ==
  /\ call' = c
  /\ requests' = <<>>
  /\ ret' = [NoRet EXCEPT !.url = u.url, !.err = u.err]

SingleURL ==
  /\ pc = "idle"
  /\ pc' = "done"
  /\ \E end \in Endpoints, id \in IdSamples, opts \in OptLists :
       Built([NoCall EXCEPT !.op = "singleURL", !.end = end, !.id = id,
                            !.opts = opts],
             singleURL(NewClient.rootURL, end, id, opts))

MultiURL ==
  /\ pc = "idle"
  /\ pc' = "done"
  /\ \E end \in Endpoints, ids \in IdLists, opts \in OptLists :
       Built([NoCall EXCEPT !.op = "multiURL", !.end = end, !.ids = ids,
                            !.opts = opts],
             multiURL(NewClient.rootURL, end, ids, opts))

SearchURL ==
  /\ pc = "idle"
  /\ pc' = "done"
  /\ \E end \in Endpoints, qry \in QrySamples, opts \in OptLists :
       Built([NoCall EXCEPT !.op = "searchURL", !.end = end, !.qry = qry,
                            !.opts = opts],
             searchURL(NewClient.rootURL, end, qry, opts))

EncodeURL ==
  /\ pc = "idle"
  /\ pc' = "done"
  /\ \E enc \in EncSamples, url \in URLSamples :
       Built([NoCall EXCEPT !.op = "encodeURL", !.enc = enc, !.url = url],
             [url |-> encodeURL(enc, url), err |-> nil])

(* the call returns to its caller; nothing is kept between calls *)
Return ==
  /\ pc = "done"
  /\ pc' = "idle"
  /\ call' = NoCall
  /\ requests' = <<>>
  /\ ret' = NoRet

Next ==
  \/ GetGame
  \/ GetFeed
  \/ GetGames
  \/ GetFeeds
  \/ SearchGames
  \/ GetEndpointModel
  \/ SingleURL
  \/ MultiURL
  \/ SearchURL
  \/ EncodeURL
  \/ Return

Spec == Init /\ [][Next]_vars

TypeOK ==
  /\ pc \in {"idle", "done"}
  /\ Len(requests) <= 1

(* ------------------- helpers for stating properties ------------------ *)
Contains(s, ch) == \E i \in 1..Len(s) : s[i] = ch

Count(s, ch) == Cardinality({i \in 1..Len(s) : s[i] = ch})

HasPrefix(s, p) == Len(s) >= Len(p) /\ SubSeq(s, 1, Len(p)) = p

TrimPrefix(s, p) == SubSeq(s, Len(p) + 1, Len(s))

(* the part of a URL before its first "?" *)
PathOf(u) ==
  IF Contains(u, "?")
  THEN SubSeq(u, 1, (CHOOSE i \in 1..Len(u) :
                       u[i] = "?" /\ \A j \in 1..(i - 1) : u[j] # "?") - 1)
  ELSE u

RECURSIVE SplitOn(_, _)
SplitOn(s, sep) ==
  IF ~Contains(s, sep) THEN <<s>>
  ELSE LET i == CHOOSE k \in 1..Len(s) :
                  s[k] = sep /\ \A j \in 1..(k - 1) : s[j] # sep
       IN  <<SubSeq(s, 1, i - 1)>> \o SplitOn(SubSeq(s, i + 1, Len(s)), sep)

DigitValue(ch) == CHOOSE d \in 0..9 : Digits[d + 1] = ch

IsDecimal(s) ==
  /\ s # <<>>
  /\ \A i \in 1..Len(s) : \E d \in 1..10 : Digits[d] = s[i]
  /\ Len(s) > 1 => s[1] # "0"

RECURSIVE Atoi(_)
Atoi(s) ==
  IF Len(s) = 1 THEN DigitValue(s[1])
  ELSE 10 * Atoi(SubSeq(s, 1, Len(s) - 1)) + DigitValue(s[Len(s)])

ValidOpts(opts) ==
  \A i \in 1..Len(opts) :
    /\ opts[i].kind = "limit" => opts[i].n \in 1..50
    /\ opts[i].kind = "offset" => opts[i].n >= 0

NonNegative(ids) == \A i \in 1..Len(ids) : ids[i] >= 0

Done(ops) == pc = "done" /\ call.op \in ops

OKResp(syntaxes) ==
  call.resp.outcome = "ok" /\ call.resp.body.syntax \in syntaxes

(* ------------------------------ claims ------------------------------- *)

(* C1: a single-entity Get with id >= 0 and options that pass validation   *)
(* builds a URL whose path is root + endpoint path + the decimal id, and   *)
(* the accessors request exactly that URL; with id < 0 it returns          *)
(* ErrNegativeID and a nil entity and sends no request, whatever the       *)
(* options are.                                                            *)
C1_SingleGet ==
  Done({"GetGame", "GetFeed", "singleURL"}) =>
    /\ call.id < 0 =>
         /\ ret.err = ErrNegativeID
         /\ ret.isNil /\ ~ret.panic
         /\ ret.url = <<>>
         /\ requests = <<>>
    /\ (call.id >= 0 /\ ValidOpts(call.opts)) =>
         /\ HasPrefix(PathOf(ret.url), igdbURL \o call.end)
         /\ LET sel == TrimPrefix(PathOf(ret.url), igdbURL \o call.end)
            IN  IsDecimal(sel) /\ Atoi(sel) = call.id
         /\ call.op # "singleURL" => requests = <<ret.url>>
         /\ call.op = "singleURL" => ret.err = nil

C1_Witness ==
  /\ Done({"GetGame"})
  /\ call.id < 0
  /\ ~ValidOpts(call.opts)
  /\ ret.err = ErrNegativeID
  /\ requests = <<>>

(* C2: a single-entity Get with a valid id whose response body is an empty *)
(* JSON array returns ErrNoResults and a nil entity without panicking;     *)
(* with at least one element it returns the first element and a nil error. *)
C2_GetEmptyArray ==
  (/\ Done({"GetGame", "GetFeed"})
   /\ OKResp({"array"})
   /\ call.resp.body.elemKind # "string") =>
    IF call.resp.body.elems = <<>>
    THEN ret.err = ErrNoResults /\ ret.isNil /\ ~ret.panic
    ELSE ret.err = nil /\ ~ret.panic /\ ~ret.isNil
         /\ ret.val = <<call.resp.body.elems[1]>>

(* C3: a multi-entity List with an empty id list returns ErrEmptyIDs, with *)
(* a negative id in the list ErrNegativeID; either way the result list is  *)
(* nil and no request is sent.                                             *)
C3_ListInvalidIDs ==
  Done({"GetGames", "GetFeeds"}) =>
    /\ call.ids = <<>> =>
         ret.err = ErrEmptyIDs /\ ret.isNil /\ requests = <<>>
    /\ ~NonNegative(call.ids) =>
         ret.err = ErrNegativeID /\ ret.isNil /\ requests = <<>>

(* C4: List and Search with valid inputs and an empty JSON array as the    *)
(* response body return ErrNoResults and a nil list, never an empty list   *)
(* with a nil error.                                                       *)
C4_ListEmptyArray ==
  (/\ Done({"GetGames", "GetFeeds", "SearchGames"})
   /\ call.op # "SearchGames" => call.ids # <<>>
   /\ OKResp({"array"})
   /\ call.resp.body.elems = <<>>) =>
    ret.err = ErrNoResults /\ ret.isNil

(* C5: for every accessor, a response whose body is empty or is not valid  *)
(* JSON yields the one invalid-JSON sentinel.                              *)
C5_InvalidJSONSentinel ==
  (/\ Done({"GetGame", "GetFeed", "GetGames", "GetFeeds", "SearchGames",
            "GetEndpointModel"})
   /\ OKResp({"empty", "invalid"})) =>
    ret.err = errInvalidJSON /\ ret.err # ErrNoResults

(* C6 as stated: whenever the option list holds a limit outside [1, 50] or *)
(* an offset below 0, the builder returns an empty URL with ErrOutOfRange  *)
(* and no request is sent.                                                 *)
C6_Original ==
  (/\ Done({"GetGame", "GetFeed", "GetGames", "GetFeeds", "SearchGames",
            "singleURL", "multiURL", "searchURL"})
   /\ ~ValidOpts(call.opts)) =>
    ret.err = ErrOutOfRange /\ ret.url = <<>> /\ requests = <<>>

(* C6 amended: whenever the option list holds a limit outside [1, 50] or   *)
(* an offset below 0 and the id (singleURL) or every id of the list        *)
(* (multiURL) is non-negative, the builder returns an empty URL with       *)
(* ErrOutOfRange, whatever the other options are, and no request is sent.  *)
C6_OutOfRange ==
  (/\ Done({"GetGame", "GetFeed", "GetGames", "GetFeeds", "SearchGames",
            "singleURL", "multiURL", "searchURL"})
   /\ ~ValidOpts(call.opts)
   /\ call.id >= 0
   /\ NonNegative(call.ids)) =>
    /\ ret.err = ErrOutOfRange
    /\ ret.url = <<>>
    /\ ret.isNil
    /\ requests = <<>>

C6_Witness ==
  /\ Done({"GetFeed"})
  /\ call.id >= 0
  /\ Len(call.opts) = 2
  /\ call.opts[1] = OptFields(<<"n","a","m","e">>)
  /\ call.opts[2] = OptLimit(51)
  /\ ret.err = ErrOutOfRange
  /\ requests = <<>>

(* C7: for a non-empty list of non-negative ids and valid options the path *)
(* of the URL multiURL builds is root + endpoint path + the ids in         *)
(* decimal, joined by single commas, in the order given, duplicates kept,  *)
(* with no leading or trailing comma.                                      *)
C7_CommaJoinedIDs ==
  (/\ Done({"GetGames", "GetFeeds", "multiURL"})
   /\ call.ids # <<>>
   /\ NonNegative(call.ids)
   /\ ValidOpts(call.opts)) =>
    /\ ret.url # <<>>
    /\ HasPrefix(PathOf(ret.url), igdbURL \o call.end)
    /\ LET parts == SplitOn(TrimPrefix(PathOf(ret.url), igdbURL \o call.end),
                            ",")
       IN  /\ Len(parts) = Len(call.ids)
           /\ \A i \in 1..Len(parts) :
                IsDecimal(parts[i]) /\ Atoi(parts[i]) = call.ids[i]

C7_Witness ==
  /\ Done({"multiURL"})
  /\ call.ids = <<12, 12>>
  /\ call.end = PulseEndpoint
  /\ call.opts = <<OptLimit(50)>>
  /\ ret.err = nil

(* C8: GetEndpointModel requests root + endpoint path + "meta"; an empty   *)
(* JSON array is an empty field list with a nil error, an empty or         *)
(* unparseable body is the invalid-JSON error with a nil list.             *)
C8_Fields ==
  Done({"GetEndpointModel"}) =>
    /\ requests = <<igdbURL \o call.end \o <<"m","e","t","a">> >>
    /\ (OKResp({"array"}) /\ call.resp.body.elems = <<>>) =>
         ret.err = nil /\ ret.val = <<>> /\ ~ret.isNil
    /\ OKResp({"empty", "invalid"}) =>
         ret.err = errInvalidJSON /\ ret.isNil

(* C9: the URL encodeURL returns (and so the one singleURL, multiURL and   *)
(* searchURL return) holds no space anywhere, the query string included,   *)
(* and holds no "?" when the encoded option string is empty.               *)
C9_NoSpaces ==
  Done({"encodeURL", "singleURL", "multiURL", "searchURL", "GetGame",
        "GetFeed", "GetGames", "GetFeeds", "SearchGames"}) =>
    /\ ~Contains(ret.url, " ")
    /\ \A i \in 1..Len(requests) : ~Contains(requests[i], " ")
    /\ (/\ call.opts = <<>>
        /\ call.enc = EmptyValues
        /\ call.op \notin {"searchURL", "SearchGames"}) =>
         ~Contains(ret.url, "?")

C9_Witness ==
  /\ Done({"encodeURL"})
  /\ Contains(call.url, " ")
  /\ Contains(call.url, "/")
  /\ call.enc # EmptyValues
  /\ "search" \in DOMAIN call.enc
  /\ Contains(ret.url, "+")

(* C10: for every endpoint the URLs of singleURL, multiURL and             *)
(* GetEndpointModel put exactly one "/" between the collection name and    *)
(* the id, the id list or "meta".                                          *)
C10_EndpointSlash ==
  (/\ Done({"singleURL", "multiURL", "GetEndpointModel"})
   /\ ret.url # <<>>) =>
    LET rest == TrimPrefix(PathOf(ret.url), igdbURL)
    IN  /\ HasPrefix(PathOf(ret.url), igdbURL)
        /\ Count(rest, "/") = 1
        /\ rest[1] # "/"

====
